---------------------------- MODULE Spec2Model ----------------------------
(***************************************************************************)
(* A model of the two inference pipelines of antspynet.utilities:          *)
(*   brain_age                    (brain_age.py)                           *)
(*   sysu_media_wmh_segmentation  (white_matter_hyperintensity_            *)
(*                                 segmentation.py)                        *)
(* Each call is a straight-line program; the model follows it statement    *)
(* group by statement group with a program counter, logs every call into   *)
(* the imaging / network libraries, and keeps the weight-file cache on     *)
(* disk across calls.  Voxel intensities are abstracted: an image is its   *)
(* header (dimension, shape, origin, spacing, direction), the centre of    *)
(* mass of its content and the displacement of its content relative to    *)
(* the space it was acquired in.  Physical coordinates are in half         *)
(* millimetres so that the centre of the 200^3 reference image is exact.   *)
(* The verbose flag only prints and is left out.                           *)
(***************************************************************************)
EXTENDS Integers, Sequences, FiniteSets, TLC

VARIABLES
    fn,         \* the function being executed: "none", "brain_age", "sysu"
    pc,         \* position in the function body
    args,       \* the arguments of the call
    loc,        \* the local variables of the call
    err,        \* the exception that ended the call, or NoErr
    log,        \* library calls made by the current call, in order
    disk,       \* files on disk (normalised paths), kept across calls
    disk0,      \* the files on disk when the current call started
    downloads,  \* paths downloaded to so far, one entry per download
    ncalls      \* number of calls started

vars == <<fn, pc, args, loc, err, log, disk, disk0, downloads, ncalls>>

----------------------------------------------------------------------------
(* Bounds of the model *)

\* number of calls in a run
MaxCalls == 2

----------------------------------------------------------------------------
(* Vectors *)

VAdd(a, b) == [k \in DOMAIN a |-> a[k] + b[k]]
VSub(a, b) == [k \in DOMAIN a |-> a[k] - b[k]]
VNeg(a) == [k \in DOMAIN a |-> 0 - a[k]]
Zero3 == <<0, 0, 0>>

Min(S) == CHOOSE x \in S : \A y \in S : x <= y
Abs(x) == IF x < 0 THEN 0 - x ELSE x
Range(f) == {f[k] : k \in DOMAIN f}

----------------------------------------------------------------------------
(* Paths.  A string is a sequence of tokens; "/" is the separator token.   *)
(* String concatenation is \o.  The file system sees a path through its    *)
(* components: the maximal runs of non-separator tokens.                   *)

Sep == "/"

RECURSIVE Components(_)
Components(p) ==
    IF p = <<>> THEN <<<<>>>>
    ELSE IF Head(p) = Sep THEN <<<<>>>> \o Components(Tail(p))
    ELSE LET rest == Components(Tail(p)) IN
         <<<<Head(p)>> \o Head(rest)>> \o Tail(rest)

\* the components with the empty runs (from "//", a leading or a trailing
\* separator) dropped: the file the path names
NormPath(p) == SelectSeq(Components(p), LAMBDA c : c # <<>>)

BaseName(np) == np[Len(np)]

\* str(i) for the model indices
Str(i) == CASE i = 0 -> "0" [] i = 1 -> "1" [] i = 2 -> "2" [] OTHER -> "n"

----------------------------------------------------------------------------
(* Images *)

\* Python's None for an image argument
NoImage ==
    [dimension |-> 0, shape |-> <<>>, origin |-> <<>>, spacing |-> <<>>,
     direction |-> "none", com |-> <<>>, shift |-> <<>>, data |-> "none"]

IsNone(image) == image.dimension = 0

Image3(shape, origin, spacing, direction, com, data) ==
    [dimension |-> 3, shape |-> shape, origin |-> origin, spacing |-> spacing,
     direction |-> direction, com |-> com, shift |-> Zero3, data |-> data]

Image2(shape, data) ==
    [dimension |-> 2, shape |-> shape, origin |-> <<0, 0>>, spacing |-> <<1, 1>>,
     direction |-> "identity", com |-> <<shape[1] - 1, shape[2] - 1>>,
     shift |-> <<0, 0>>, data |-> data]

\* the header of an image: what copy_image_info and resampling carry
Header(image) ==
    [shape |-> image.shape, origin |-> image.origin, spacing |-> image.spacing,
     direction |-> image.direction]

\* T1 images a caller may pass to brain_age: a 2-D image, and 3-D volumes
\* with 125, 126 and 182 axial slices
T1Inputs ==
    { Image2(<<160, 192>>, "t1"),
      Image3(<<160, 192, 125>>, <<0, 0, 0>>, <<1, 1, 1>>, "identity", <<159, 191, 124>>, "t1"),
      Image3(<<160, 192, 126>>, <<0, 0, 0>>, <<1, 1, 1>>, "identity", <<159, 191, 125>>, "t1"),
      Image3(<<182, 218, 182>>, <<-90, 126, -72>>, <<1, 1, 1>>, "LPI", <<1, 17, 37>>, "t1") }

\* FLAIR images a caller may pass to sysu_media_wmh_segmentation
FlairInputs ==
    { Image2(<<256, 256>>, "flair"),
      Image3(<<256, 256, 48>>, <<-120, -110, -30>>, <<1, 1, 3>>, "LPI", <<11, 25, 77>>, "flair") }

\* optional T1 images for the segmentation
SegT1Inputs ==
    { NoImage,
      Image2(<<256, 256>>, "t1"),
      Image3(<<176, 240, 256>>, <<-88, -120, -128>>, <<1, 1, 1>>, "RAI", <<5, -9, 13>>, "t1") }

\* optional brain masks for the segmentation
MaskInputs ==
    { NoImage,
      Image2(<<256, 256>>, "mask"),
      Image3(<<256, 256, 48>>, <<-120, -110, -30>>, <<1, 1, 3>>, "LPI", <<15, 21, 81>>, "mask") }

\* output_directory: None, a directory without and with a trailing separator
NoneDir == <<"<None>">>
Directories == { NoneDir, <<Sep, "cache">>, <<Sep, "cache", Sep>> }

----------------------------------------------------------------------------
(* The imaging library (ants), as the two functions call it *)

\* ants.get_mask(image, cleanup=2): a mask of the image's content, in the
\* image's space
get_mask(image) == [image EXCEPT !.data = "mask"]

\* ants.make_image((200, 200, 200), voxval=1, spacing=(1,1,1),
\*                 origin=(0,0,0), direction=identity)
ReferenceSize == 200
reference_image ==
    LET shape == <<ReferenceSize, ReferenceSize, ReferenceSize>> IN
    Image3(shape, <<0, 0, 0>>, <<1, 1, 1>>, "identity",
           [k \in 1..3 |-> shape[k] - 1], "ones")

\* ants.get_center_of_mass(image), in half millimetres
get_center_of_mass(image) == image.com

\* ants.create_ants_transform("Euler3DTransform", center, translation):
\* no rotation is given, so the transform is the translation p |-> p + t
create_ants_transform(center, translation) ==
    [center |-> center, translation |-> translation]

\* ants.invert_ants_transform(xfrm): a new transform, the inverse
invert_ants_transform(xfrm) ==
    [center |-> xfrm.center, translation |-> VNeg(xfrm.translation)]

\* ants.apply_ants_transform_to_image(xfrm, image, reference): the image
\* resampled onto the grid of the reference; out(p) = image(xfrm(p)), so the
\* content moves by the translation
apply_ants_transform_to_image(xfrm, image, reference) ==
    [dimension |-> reference.dimension,
     shape |-> reference.shape, origin |-> reference.origin,
     spacing |-> reference.spacing, direction |-> reference.direction,
     com |-> VSub(image.com, xfrm.translation),
     shift |-> VAdd(image.shift, xfrm.translation),
     data |-> image.data]

\* ants.slice_image(image, axis=2, idx): whether the index is inside the axis
ValidSlice(image, idx) == 0 <= idx /\ idx < image.shape[3]

\* ants.from_numpy(array): an image of the array's shape with the default
\* header
from_numpy(shape, data) ==
    Image3(shape, <<0, 0, 0>>, <<1, 1, 1>>, "identity", <<0, 0, 0>>, data)

\* ants.copy_image_info(reference, target): origin, spacing and direction of
\* the reference put on the target.  The target's voxels then lie where the
\* reference's voxels lie, and so does its content when it was computed
\* voxel by voxel from the reference.
copy_image_info(reference, target) ==
    [target EXCEPT !.origin = reference.origin, !.spacing = reference.spacing,
                   !.direction = reference.direction, !.com = reference.com,
                   !.shift = reference.shift]

\* pad_or_crop_image_to_size(image, size), on the shape of the image
pad_or_crop_image_to_size(image_size, size) ==
    LET delta == [k \in DOMAIN size |-> image_size[k] - size[k]]
        padded == IF \E k \in DOMAIN delta : delta[k] < 0
                  THEN LET pad_size == Abs(Min(Range(delta)))
                       IN [k \in DOMAIN size |-> image_size[k] + pad_size]
                  ELSE image_size
    IN \* crop_image_center(image, size)
       [k \in DOMAIN size |-> IF padded[k] >= size[k] THEN size[k] ELSE padded[k]]

----------------------------------------------------------------------------
(* Code of the package that the two functions import *)

\* the template preprocess_brain_image registers to ("croppedMni152")
TemplateHeader ==
    [shape |-> <<182, 218, 182>>, origin |-> <<-90, 126, -72>>,
     spacing |-> <<1, 1, 1>>, direction |-> "LPI"]

\* preprocess_brain_image(image, ..., template=...)["preprocessed_image"]:
\* bias-corrected; with a template, registered to it and so in its space
preprocess_brain_image(image, with_template) ==
    IF with_template /\ image.dimension = 3
    THEN [image EXCEPT !.shape = TemplateHeader.shape,
                       !.origin = TemplateHeader.origin,
                       !.spacing = TemplateHeader.spacing,
                       !.direction = TemplateHeader.direction]
    ELSE image

\* a file on disk: its normalised path and the network whose weights it holds
File(path, network) == [path |-> NormPath(path), network |-> network]

\* a lookup that never finds the file
Exists_never(files, path) == FALSE

\* os.path.exists(path)
Exists(files, path) == \E f \in files : f.path = NormPath(path)

\* get_pretrained_network(name) without a target: the path it chooses
DefaultTarget(name) == <<"~", Sep, ".keras", Sep>> \o name \o <<".h5">>

\* get_pretrained_network(name, target): the files on disk afterwards; the
\* download writes the target file
get_pretrained_network(files, name, target) ==
    {f \in files : f.path # NormPath(target)} \cup {File(target, name)}

\* the network stored in the file at a path
NetworkAt(files, path) ==
    (CHOOSE f \in files : f.path = NormPath(path)).network

----------------------------------------------------------------------------
(* State *)

NoErr == [type |-> "none", line |-> 0]
NoXfrm == [center |-> <<>>, translation |-> <<>>]
NoAge == [num |-> 0, den |-> 0]

\* what a library reports when it is handed an argument it cannot process
LibraryErrorTypes == {"ValueError", "RuntimeError"}

InitLoc ==
    [t1_preprocessed |-> NoImage, flair_preprocessed |-> NoImage,
     brain_mask |-> NoImage, number_of_channels |-> 0,
     xfrm |-> NoXfrm, inverse |-> NoXfrm,
     flair_preprocessed_warped |-> NoImage, t1_preprocessed_warped |-> NoImage,
     brain_mask_warped |-> NoImage,
     number_of_models |-> 0, i |-> 0,
     model_weights_file_name |-> <<>>, unet_models |-> <<>>,
     batch_shape |-> <<>>, batchX |-> <<>>, slices_read |-> {},
     brain_age_per_slice |-> <<>>, predicted_age |-> NoAge,
     prediction |-> <<>>, probability_image |-> NoImage]

NoArgs ==
    [t1 |-> NoImage, flair |-> NoImage, brain_mask |-> NoImage,
     do_preprocessing |-> FALSE, use_ensemble |-> FALSE,
     output_directory |-> NoneDir]

Init ==
    /\ fn = "none"
    /\ pc = "idle"
    /\ args = NoArgs
    /\ loc = InitLoc
    /\ err = NoErr
    /\ log = <<>>
    /\ disk = {}
    /\ disk0 = {}
    /\ downloads = {}
    /\ ncalls = 0

\* a library call: the operation, the network or image it names, and the
\* path it is given
Event(op, name, path) == [op |-> op, name |-> name, path |-> path]

\* the call has returned or raised
Terminal == pc \in {"done", "raised", "failed"}

\* brain_age with the dimension check after the preprocessing
BrainAgeOrder_lateCheck ==
    <<"preprocess", "check", "normalize", "load_weights", "extract",
      "predict", "aggregate", "done">>

\* the segmentation with the slices extracted before the weights are loaded
SysuOrder_extractFirst ==
    <<"check", "preprocess", "mask", "realign", "normalize", "extract",
      "load_weights", "predict", "average", "restack", "done">>

\* the statement groups of each function body, in program order
BrainAgeOrder ==
    <<"check", "preprocess", "normalize", "load_weights", "extract",
      "predict", "aggregate", "done">>

SysuOrder ==
    <<"check", "preprocess", "mask", "realign", "normalize", "load_weights",
      "extract", "predict", "average", "restack", "done">>

Order(f) == IF f = "brain_age" THEN BrainAgeOrder ELSE SysuOrder

FirstPc(f) == Order(f)[1]

NextPc(f, p) ==
    LET k == CHOOSE j \in 1..Len(Order(f)) : Order(f)[j] = p
    IN Order(f)[k + 1]

\* number of downloads made to a path
DownloadCount(path) ==
    IF \E d \in downloads : d.path = NormPath(path)
    THEN (CHOOSE d \in downloads : d.path = NormPath(path)).n
    ELSE 0

CountDownload(path) ==
    {d \in downloads : d.path # NormPath(path)}
        \cup {[path |-> NormPath(path), n |-> DownloadCount(path) + 1]}

----------------------------------------------------------------------------
(* Calls *)

CallBrainAge ==
    /\ pc = "idle"
    /\ ncalls < MaxCalls
    /\ \E t1 \in T1Inputs, do_preprocessing \in BOOLEAN,
          output_directory \in Directories :
          args' = [NoArgs EXCEPT !.t1 = t1,
                                 !.do_preprocessing = do_preprocessing,
                                 !.output_directory = output_directory]
    /\ fn' = "brain_age"
    /\ pc' = FirstPc("brain_age")
    /\ loc' = InitLoc
    /\ err' = NoErr
    /\ log' = <<>>
    /\ disk0' = disk
    /\ ncalls' = ncalls + 1
    /\ UNCHANGED <<disk, downloads>>

CallSysu ==
    /\ pc = "idle"
    /\ ncalls < MaxCalls
    /\ \E flair \in FlairInputs, t1 \in SegT1Inputs, brain_mask \in MaskInputs,
          do_preprocessing \in BOOLEAN, use_ensemble \in BOOLEAN,
          output_directory \in Directories :
          args' = [t1 |-> t1, flair |-> flair, brain_mask |-> brain_mask,
                   do_preprocessing |-> do_preprocessing,
                   use_ensemble |-> use_ensemble,
                   output_directory |-> output_directory]
    /\ fn' = "sysu"
    /\ pc' = FirstPc("sysu")
    /\ loc' = InitLoc
    /\ err' = NoErr
    /\ log' = <<>>
    /\ disk0' = disk
    /\ ncalls' = ncalls + 1
    /\ UNCHANGED <<disk, downloads>>

\* the function has returned or raised: its arguments and locals are gone,
\* the files on disk stay
Return ==
    /\ Terminal
    /\ fn' = "none"
    /\ pc' = "idle"
    /\ args' = NoArgs
    /\ loc' = InitLoc
    /\ err' = NoErr
    /\ log' = <<>>
    /\ disk0' = disk
    /\ UNCHANGED <<disk, downloads, ncalls>>

----------------------------------------------------------------------------
(* brain_age.  Position j of a sequence holds Python's element j - 1. *)

\* raise ValueError("Image dimension must be 3.")
Raise(line) ==
    /\ pc' = "raised"
    /\ err' = [type |-> "ValueError", line |-> line]

\* an exception that comes out of a library call and is not caught
Fail(line) ==
    /\ pc' = "failed"
    /\ \E type \in LibraryErrorTypes : err' = [type |-> type, line |-> line]

Continue ==
    /\ pc' = NextPc(fn, pc)
    /\ err' = err

\* if t1.dimension != 3: raise ValueError
BA_Check ==
    /\ fn = "brain_age" /\ pc = "check"
    /\ IF args.t1.dimension # 3 THEN Raise(67) ELSE Continue
    /\ UNCHANGED <<fn, args, loc, log, disk, disk0, downloads, ncalls>>

\* t1_preprocessed = t1, or the preprocessed image times its brain mask
BA_Preprocess ==
    /\ fn = "brain_age" /\ pc = "preprocess"
    /\ IF args.do_preprocessing
       THEN /\ loc' = [loc EXCEPT !.t1_preprocessed =
                                      preprocess_brain_image(args.t1, TRUE)]
            /\ log' = Append(log, Event("preprocess_brain_image", <<"t1">>,
                                        args.output_directory))
       ELSE /\ loc' = [loc EXCEPT !.t1_preprocessed = args.t1]
            /\ log' = log
    /\ Continue
    /\ UNCHANGED <<fn, args, disk, disk0, downloads, ncalls>>

\* t1_preprocessed = (t1_preprocessed - min) / (max - min)
BA_Normalize ==
    /\ fn = "brain_age" /\ pc = "normalize"
    /\ loc' = [loc EXCEPT !.t1_preprocessed.data = "t1 in [0, 1]"]
    /\ log' = Append(log, Event("normalize", <<"t1">>, <<>>))
    /\ Continue
    /\ UNCHANGED <<fn, args, disk, disk0, downloads, ncalls>>

BrainAgeNetwork == <<"brainAgeDeepBrainNet">>

\* output_directory + "/DeepBrainNetModel.h5"
BrainAgeWeightsFile(output_directory) ==
    output_directory \o <<Sep, "DeepBrainNetModel", ".h5">>

\* the weights file is looked up in output_directory and downloaded when it
\* is not there; then keras.models.load_model(model_weights_file_name)
BA_LoadWeights ==
    /\ fn = "brain_age" /\ pc = "load_weights"
    /\ LET cached == BrainAgeWeightsFile(args.output_directory)
           given == args.output_directory # NoneDir
           download == ~given \/ ~Exists(disk, cached)
           file == IF given THEN cached ELSE DefaultTarget(BrainAgeNetwork)
           lookup == IF given THEN <<Event("exists", <<>>, cached)>> ELSE <<>>
           fetch == IF download
                    THEN <<Event("get_pretrained_network", BrainAgeNetwork,
                                 IF given THEN cached ELSE NoneDir)>>
                    ELSE <<>>
       IN /\ disk' = IF download
                     THEN get_pretrained_network(disk, BrainAgeNetwork, file)
                     ELSE disk
          /\ downloads' = IF download /\ given THEN CountDownload(file)
                          ELSE downloads
          /\ log' = log \o lookup \o fetch
                        \o <<Event("load_model", NetworkAt(disk', file), file)>>
          /\ loc' = [loc EXCEPT
                !.model_weights_file_name = file,
                !.unet_models = <<[channels |-> 3,
                                   weights |-> NetworkAt(disk', file)]>>]
    /\ Continue
    /\ UNCHANGED <<fn, args, disk0, ncalls>>

SliceStart == 45
SliceStop == 125

\* list(range(46, 126))
which_slices_shifted ==
    [j \in 1..(SliceStop - SliceStart) |-> SliceStart + j]

\* which_slices = list(range(45, 125))
which_slices == [j \in 1..(SliceStop - SliceStart) |-> SliceStart + j - 1]

\* the slice and the two after it
SliceTriple_forward(j) ==
    <<which_slices[j], which_slices[j] + 1, which_slices[j] + 2>>

\* the slice indices batch entry j reads, in channel order
SliceTriple(j) == <<which_slices[j] - 1, which_slices[j], which_slices[j] + 1>>

\* the reads of the loop, in the order it makes them
SliceReads ==
    [r \in 1..(3 * Len(which_slices)) |->
        SliceTriple(((r - 1) \div 3) + 1)[((r - 1) % 3) + 1]]

\* batchX = np.zeros((len(which_slices), *t1_preprocessed.shape[0:2], 3)), then
\* three ants.slice_image(t1_preprocessed, axis=2, idx=...) per entry
BA_Extract ==
    /\ fn = "brain_age" /\ pc = "extract"
    /\ LET image == loc.t1_preprocessed
           bad == {r \in DOMAIN SliceReads : ~ValidSlice(image, SliceReads[r])}
           shape == <<Len(which_slices), image.shape[1], image.shape[2], 3>>
       IN IF bad = {}
          THEN /\ loc' = [loc EXCEPT
                     !.batch_shape = shape,
                     !.batchX = [j \in DOMAIN which_slices |-> SliceTriple(j)],
                     !.slices_read = Range(SliceReads)]
               /\ Continue
          ELSE /\ loc' = [loc EXCEPT
                     !.batch_shape = shape,
                     !.slices_read = {SliceReads[r] : r \in 1..Min(bad)}]
               /\ Fail(120 + ((Min(bad) - 1) % 3))
    /\ log' = Append(log, Event("slice_image", <<"t1">>, <<>>))
    /\ UNCHANGED <<fn, args, disk, disk0, downloads, ncalls>>

\* what the content of an image contributes to a prediction
Content(image) == image.com[1] + 2 * image.com[2] + 3 * image.com[3]

\* the age DeepBrainNet gives one three-channel batch entry
DeepBrainNet(image, entry) ==
    20 + ((Content(image) + 7 * entry[2] * entry[2] + 3 * entry[1] + entry[3]) % 61)

\* brain_age_per_slice = model.predict(batchX)
BA_Predict ==
    /\ fn = "brain_age" /\ pc = "predict"
    /\ loc' = [loc EXCEPT !.brain_age_per_slice =
                  [j \in DOMAIN loc.batchX |->
                      DeepBrainNet(loc.t1_preprocessed, loc.batchX[j])]]
    /\ log' = Append(log, Event("predict", loc.unet_models[1].weights, <<>>))
    /\ Continue
    /\ UNCHANGED <<fn, args, disk, disk0, downloads, ncalls>>

\* a median that takes the two values after the lower middle one
median_high(data) ==
    LET sorted == SortSeq(data, LAMBDA a, b : a < b)
        n == Len(sorted)
        i == n \div 2
    IN IF n % 2 = 1
       THEN [num |-> sorted[i + 1], den |-> 1]
       ELSE [num |-> sorted[i + 1] + sorted[i + 2], den |-> 2]

\* statistics.median(data): the middle value of the sorted data, or the mean
\* of the two middle values when their number is even; as a fraction
median(data) ==
    LET sorted == SortSeq(data, LAMBDA a, b : a < b)
        n == Len(sorted)
        i == n \div 2
    IN IF n % 2 = 1
       THEN [num |-> sorted[i + 1], den |-> 1]
       ELSE [num |-> sorted[i] + sorted[i + 1], den |-> 2]

\* predicted_age = statistics.median(brain_age_per_slice)[0]
BA_Aggregate ==
    /\ fn = "brain_age" /\ pc = "aggregate"
    /\ loc' = [loc EXCEPT !.predicted_age = median(loc.brain_age_per_slice)]
    /\ log' = Append(log, Event("median", <<>>, <<>>))
    /\ Continue
    /\ UNCHANGED <<fn, args, disk, disk0, downloads, ncalls>>

BrainAge ==
    \/ BA_Check \/ BA_Preprocess \/ BA_Normalize \/ BA_LoadWeights
    \/ BA_Extract \/ BA_Predict \/ BA_Aggregate

----------------------------------------------------------------------------
(* sysu_media_wmh_segmentation *)

\* if flair.dimension != 3: raise ValueError
WMH_Check ==
    /\ fn = "sysu" /\ pc = "check"
    /\ IF args.flair.dimension # 3 THEN Raise(84) ELSE Continue
    /\ UNCHANGED <<fn, args, loc, log, disk, disk0, downloads, ncalls>>

\* the images preprocess_brain_image is called on, in call order
PreprocessedInputs ==
    IF ~args.do_preprocessing THEN <<>>
    ELSE IF IsNone(args.t1) THEN <<"flair">>
    ELSE <<"flair", "t1">>

\* flair_preprocessed, t1_preprocessed and number_of_channels
WMH_Preprocess ==
    /\ fn = "sysu" /\ pc = "preprocess"
    /\ loc' = [loc EXCEPT
          !.flair_preprocessed =
              IF args.do_preprocessing
              THEN preprocess_brain_image(args.flair, FALSE) ELSE args.flair,
          !.t1_preprocessed =
              IF IsNone(args.t1) THEN NoImage
              ELSE IF args.do_preprocessing
              THEN preprocess_brain_image(args.t1, FALSE) ELSE args.t1,
          !.number_of_channels = IF IsNone(args.t1) THEN 1 ELSE 2]
    /\ log' = log \o [k \in DOMAIN PreprocessedInputs |->
                         Event("preprocess_brain_image", <<PreprocessedInputs[k]>>,
                               args.output_directory)]
    /\ Continue
    /\ UNCHANGED <<fn, args, disk, disk0, downloads, ncalls>>

\* the brain mask: the one given, or ants.get_mask of t1, or of flair
WMH_Mask ==
    /\ fn = "sysu" /\ pc = "mask"
    /\ IF IsNone(args.brain_mask)
       THEN /\ loc' = [loc EXCEPT !.brain_mask =
                          IF ~IsNone(args.t1) THEN get_mask(args.t1)
                          ELSE get_mask(args.flair)]
            /\ log' = Append(log, Event("get_mask",
                          <<IF ~IsNone(args.t1) THEN "t1" ELSE "flair">>, <<>>))
       ELSE /\ loc' = [loc EXCEPT !.brain_mask = args.brain_mask]
            /\ log' = log
    /\ Continue
    /\ UNCHANGED <<fn, args, disk, disk0, downloads, ncalls>>

\* xfrm: the translation that takes the centre of the reference image to the
\* centre of mass of the brain mask
AlignTransform(brain_mask) ==
    LET center_of_mass_reference == get_center_of_mass(reference_image)
        center_of_mass_image == get_center_of_mass(brain_mask)
        translation == VSub(center_of_mass_image, center_of_mass_reference)
    IN create_ants_transform(center_of_mass_reference, translation)

\* the images are resampled onto the reference image through xfrm.  numpy
\* refuses to subtract centres of mass of different lengths (ValueError);
\* the transform of an image that is not 3-D fails inside the library.
WMH_Realign ==
    /\ fn = "sysu" /\ pc = "realign"
    /\ IF Len(get_center_of_mass(loc.brain_mask)) # 3
       THEN /\ pc' = "failed"
            /\ err' = [type |-> "ValueError", line |-> 139]
            /\ loc' = loc
            /\ log' = log
       ELSE LET xfrm == AlignTransform(loc.brain_mask)
                warped == [loc EXCEPT
                    !.xfrm = xfrm,
                    !.flair_preprocessed_warped =
                        apply_ants_transform_to_image(xfrm, loc.flair_preprocessed,
                                                      reference_image),
                    !.brain_mask_warped =
                        apply_ants_transform_to_image(xfrm, loc.brain_mask,
                                                      reference_image)]
                moved == Event("apply_ants_transform_to_image", <<"flair">>, <<>>)
                masked == Event("apply_ants_transform_to_image", <<"mask">>, <<>>)
            IN IF loc.flair_preprocessed.dimension # 3
               THEN /\ Fail(142)
                    /\ loc' = [loc EXCEPT !.xfrm = xfrm]
                    /\ log' = Append(log, moved)
               ELSE IF IsNone(args.t1)
               THEN /\ Continue
                    /\ loc' = warped
                    /\ log' = log \o <<moved, masked>>
               ELSE IF loc.t1_preprocessed.dimension # 3
               THEN /\ Fail(147)
                    /\ loc' = warped
                    /\ log' = log \o <<moved, masked,
                          Event("apply_ants_transform_to_image", <<"t1">>, <<>>)>>
               ELSE /\ Continue
                    /\ loc' = [warped EXCEPT !.t1_preprocessed_warped =
                          apply_ants_transform_to_image(xfrm, loc.t1_preprocessed,
                                                        reference_image)]
                    /\ log' = log \o <<moved, masked,
                          Event("apply_ants_transform_to_image", <<"t1">>, <<>>)>>
    /\ UNCHANGED <<fn, args, disk, disk0, downloads, ncalls>>

\* (image - mean) / std over the warped brain mask, for flair and for t1
WMH_Normalize ==
    /\ fn = "sysu" /\ pc = "normalize"
    /\ IF loc.number_of_channels = 2
       THEN /\ loc' = [loc EXCEPT
                  !.flair_preprocessed_warped.data = "flair z-score",
                  !.t1_preprocessed_warped.data = "t1 z-score"]
            /\ log' = log \o <<Event("normalize", <<"flair">>, <<>>),
                               Event("normalize", <<"t1">>, <<>>)>>
       ELSE /\ loc' = [loc EXCEPT
                  !.flair_preprocessed_warped.data = "flair z-score"]
            /\ log' = Append(log, Event("normalize", <<"flair">>, <<>>))
    /\ Continue
    /\ UNCHANGED <<fn, args, disk, disk0, downloads, ncalls>>

\* number_of_models = 1, or 3 if use_ensemble
EnsembleSize == 3
NumberOfModels(use_ensemble) == IF use_ensemble THEN EnsembleSize ELSE 1

\* the network name without the number of the weight set
SysuNetwork_first(number_of_channels, i) ==
    IF number_of_channels = 1
    THEN <<"sysuMediaWmhFlairOnlyModel", Str(0)>>
    ELSE <<"sysuMediaWmhFlairT1Model", Str(0)>>

\* "sysuMediaWmhFlairOnlyModel" or "sysuMediaWmhFlairT1Model", then str(i)
SysuNetwork(number_of_channels, i) ==
    IF number_of_channels = 1
    THEN <<"sysuMediaWmhFlairOnlyModel", Str(i)>>
    ELSE <<"sysuMediaWmhFlairT1Model", Str(i)>>

\* output_directory + "sysuMediaWmh...Model" + str(i) + ".h5"
SysuWeightsFile(output_directory, number_of_channels, i) ==
    output_directory \o SysuNetwork(number_of_channels, i) \o <<".h5">>

\* create_sysu_media_unet_model_2d((200, 200, number_of_channels))
create_sysu_media_unet_model_2d(input_image_size) ==
    [input_image_size |-> input_image_size, weights |-> <<>>]

\* one pass of the loop over the models: look the weights file up, download
\* it when it is not there, build the network and load the weights
WMH_LoadWeights ==
    /\ fn = "sysu" /\ pc = "load_weights"
    /\ LET i == loc.i
           number_of_models == NumberOfModels(args.use_ensemble)
           network == SysuNetwork(loc.number_of_channels, i)
           cached == SysuWeightsFile(args.output_directory,
                                     loc.number_of_channels, i)
           given == args.output_directory # NoneDir
           download == ~given \/ ~Exists(disk, cached)
           file == IF given THEN cached ELSE DefaultTarget(network)
           lookup == IF given THEN <<Event("exists", <<>>, cached)>> ELSE <<>>
           fetch == IF download
                    THEN <<Event("get_pretrained_network", network,
                                 IF given THEN cached ELSE NoneDir)>>
                    ELSE <<>>
           model == create_sysu_media_unet_model_2d(
                        <<ReferenceSize, ReferenceSize, loc.number_of_channels>>)
       IN /\ disk' = IF download
                     THEN get_pretrained_network(disk, network, file)
                     ELSE disk
          /\ downloads' = IF download /\ given THEN CountDownload(file)
                          ELSE downloads
          /\ log' = log \o lookup \o fetch
                        \o <<Event("create_sysu_media_unet_model_2d", <<>>, <<>>),
                             Event("load_weights", NetworkAt(disk', file), file)>>
          /\ loc' = [loc EXCEPT
                !.number_of_models = number_of_models,
                !.model_weights_file_name = file,
                !.unet_models = Append(loc.unet_models,
                    [model EXCEPT !.weights = NetworkAt(disk', file)]),
                !.i = IF i + 1 < number_of_models THEN i + 1 ELSE 0]
          /\ IF i + 1 < number_of_models
             THEN pc' = pc /\ err' = err
             ELSE Continue
    /\ UNCHANGED <<fn, args, disk0, ncalls>>

\* the channels of batch entry j: the flair slice, then the t1 slice; each
\* slice padded or cropped to 200 x 200
SliceChannels(flair_shape, number_of_channels, j) ==
    LET size == pad_or_crop_image_to_size(<<flair_shape[1], flair_shape[2]>>,
                                          <<ReferenceSize, ReferenceSize>>)
        flair_slice == [image |-> "flair", idx |-> j - 1, shape |-> size]
        t1_slice == [image |-> "t1", idx |-> j - 1, shape |-> size]
    IN IF number_of_channels = 2 THEN <<flair_slice, t1_slice>>
       ELSE <<flair_slice>>

\* batchX = np.zeros((number_of_axial_slices, 200, 200, number_of_channels)),
\* filled slice by slice
WMH_Extract ==
    /\ fn = "sysu" /\ pc = "extract"
    /\ LET number_of_axial_slices == loc.flair_preprocessed_warped.shape[3]
       IN loc' = [loc EXCEPT
              !.batch_shape = <<number_of_axial_slices, ReferenceSize,
                                ReferenceSize, loc.number_of_channels>>,
              !.batchX = [j \in 1..number_of_axial_slices |->
                  SliceChannels(loc.flair_preprocessed_warped.shape,
                                loc.number_of_channels, j)],
              !.slices_read = 0..(number_of_axial_slices - 1)]
    /\ log' = Append(log, Event("slice_image", <<"flair">>, <<>>))
    /\ Continue
    /\ UNCHANGED <<fn, args, disk, disk0, downloads, ncalls>>

\* the number of the weight set a network name ends in
WeightSet(network) ==
    CASE network[Len(network)] = "0" -> 0
      [] network[Len(network)] = "1" -> 1
      [] network[Len(network)] = "2" -> 2
      [] OTHER -> 9

\* the probability (in percent, at one voxel of slice j) a U-net with the
\* given weights predicts
Unet(model, flair, entry) ==
    (Content(flair) + 7 * (WeightSet(model.weights) + 1) * (entry[1].idx + 3)
        + 13 * Len(entry) + Len(model.weights[1])) % 101

\* model.predict(batchX), as fractions
Predict(model, flair, batch) ==
    [j \in DOMAIN batch |-> [num |-> Unet(model, flair, batch[j]), den |-> 1]]

\* prediction = unet_models[0].predict(batchX), then
\* prediction += unet_models[i].predict(batchX) for i = 1, 2, ...
Accumulate(prediction, i, predicted) ==
    IF i = 0 THEN predicted
    ELSE [j \in DOMAIN predicted |->
             [num |-> prediction[j].num + predicted[j].num, den |-> 1]]

WMH_Predict ==
    /\ fn = "sysu" /\ pc = "predict"
    /\ LET i == loc.i
           predicted == Predict(loc.unet_models[i + 1],
                                loc.flair_preprocessed_warped, loc.batchX)
       IN /\ loc' = [loc EXCEPT
                !.prediction = Accumulate(loc.prediction, i, predicted),
                !.i = IF i + 1 < loc.number_of_models THEN i + 1 ELSE 0]
          /\ log' = Append(log, Event("predict", loc.unet_models[i + 1].weights,
                                      <<>>))
          /\ IF i + 1 < loc.number_of_models
             THEN pc' = pc /\ err' = err
             ELSE Continue
    /\ UNCHANGED <<fn, args, disk, disk0, downloads, ncalls>>

\* prediction /= number_of_models
Average(prediction, number_of_models) ==
    [j \in DOMAIN prediction |->
        [num |-> prediction[j].num, den |-> prediction[j].den * number_of_models]]

WMH_Average ==
    /\ fn = "sysu" /\ pc = "average"
    /\ loc' = [loc EXCEPT !.prediction =
                  Average(loc.prediction, loc.number_of_models)]
    /\ log' = Append(log, Event("average", <<>>, <<>>))
    /\ Continue
    /\ UNCHANGED <<fn, args, disk, disk0, downloads, ncalls>>

\* np.transpose(np.squeeze(prediction), (1, 2, 0)), on the shape
PredictionArrayShape(batch_shape) ==
    <<batch_shape[2], batch_shape[3], batch_shape[1]>>

\* the probability image in the space of the warped flair
ProbabilityImageWarped(batch_shape, flair_preprocessed_warped) ==
    LET prediction_image ==
            from_numpy(pad_or_crop_image_to_size(
                           PredictionArrayShape(batch_shape),
                           flair_preprocessed_warped.shape),
                       "wmh probability")
    IN copy_image_info(flair_preprocessed_warped, prediction_image)

\* the probability image resampled through xfrm itself
BackToNative_forward(xfrm, probability_image_warped, flair) ==
    apply_ants_transform_to_image(xfrm, probability_image_warped, flair)

\* ants.apply_ants_transform_to_image(ants.invert_ants_transform(xfrm),
\*                                    probability_image_warped, flair)
BackToNative(xfrm, probability_image_warped, flair) ==
    apply_ants_transform_to_image(invert_ants_transform(xfrm),
                                  probability_image_warped, flair)

WMH_Restack ==
    /\ fn = "sysu" /\ pc = "restack"
    /\ LET probability_image_warped ==
               ProbabilityImageWarped(loc.batch_shape,
                                      loc.flair_preprocessed_warped)
       IN loc' = [loc EXCEPT
              !.inverse = invert_ants_transform(loc.xfrm),
              !.probability_image =
                  BackToNative(loc.xfrm, probability_image_warped, args.flair)]
    /\ log' = Append(log, Event("apply_ants_transform_to_image",
                                <<"inverse">>, <<>>))
    /\ Continue
    /\ UNCHANGED <<fn, args, disk, disk0, downloads, ncalls>>

Sysu ==
    \/ WMH_Check \/ WMH_Preprocess \/ WMH_Mask \/ WMH_Realign \/ WMH_Normalize
    \/ WMH_LoadWeights \/ WMH_Extract \/ WMH_Predict \/ WMH_Average
    \/ WMH_Restack

Next == CallBrainAge \/ CallSysu \/ Return \/ BrainAge \/ Sysu

Spec == Init /\ [][Next]_vars

----------------------------------------------------------------------------
(* Properties *)

\* the image arguments given to the current call
GivenImages == {im \in {args.t1, args.flair, args.brain_mask} : ~IsNone(im)}

\* the image the dimension check looks at
CheckedImage == IF fn = "brain_age" THEN args.t1 ELSE args.flair

\* the positions of the log where op is one of ops
At(ops) == {k \in DOMAIN log : log[k].op \in ops}

LoadOps == {"load_model", "load_weights"}
WeightOps == {"exists", "get_pretrained_network"} \cup LoadOps

(* C1: a call that is given any image that is not 3-D (t1 for brain_age;   *)
(* flair, t1 or brain_mask for the segmentation) ends with a ValueError.   *)
C1_Non3DInputRaisesValueError ==
    (Terminal /\ \E im \in GivenImages : im.dimension # 3)
        => err.type = "ValueError"

\* the pipeline step of the overview a library call belongs to; 0 for the
\* mask estimation, which the overview does not list
Step(e) ==
    CASE e.op = "preprocess_brain_image" -> "a"
      [] e.op = "normalize" -> "b"
      [] e.op = "apply_ants_transform_to_image" /\ e.name # <<"inverse">> -> "c"
      [] e.op = "slice_image" -> "d"
      [] e.op \in WeightOps \cup {"create_sysu_media_unet_model_2d"} -> "e"
      [] e.op = "predict" -> "f"
      [] e.op \in {"median", "average"} -> "g"
      [] e.op = "apply_ants_transform_to_image" /\ e.name = <<"inverse">> -> "g"
      [] OTHER -> "-"

Listed == {k \in DOMAIN log : Step(log[k]) # "-"}

\* the rank of each step in the order the overview lists them
ListedRank(step) ==
    CASE step = "a" -> 1 [] step = "b" -> 2 [] step = "c" -> 3
      [] step = "d" -> 4 [] step = "e" -> 5 [] step = "f" -> 6
      [] step = "g" -> 7

\* the rank of each step in the order the functions run them
RunRank(step) ==
    CASE step = "a" -> 1 [] step = "c" -> 2 [] step = "b" -> 3
      [] step = "e" -> 4 [] step = "d" -> 5 [] step = "f" -> 6
      [] step = "g" -> 7

StepsOf == {Step(log[k]) : k \in Listed}

(* C2 as stated: in a successful call the steps run in the order a, b, c,  *)
(* d, e, f, g.                                                             *)
C2_StepsInListedOrder ==
    pc = "done" =>
        \A j, k \in Listed :
            j < k => ListedRank(Step(log[j])) <= ListedRank(Step(log[k]))

(* C2 amended: in a successful call the steps run in the order a, c, b, e, *)
(* d, f, g (c in the segmentation only; a only with do_preprocessing),     *)
(* none skipped and none returned to.                                      *)
C2_StepsInRunOrder ==
    pc = "done" =>
        /\ \A j, k \in Listed :
              j < k => RunRank(Step(log[j])) <= RunRank(Step(log[k]))
        /\ StepsOf = (IF args.do_preprocessing THEN {"a"} ELSE {})
                        \cup (IF fn = "sysu" THEN {"c"} ELSE {})
                        \cup {"b", "d", "e", "f", "g"}

C2_Witness ==
    /\ pc = "done" /\ fn = "sysu"
    /\ args.do_preprocessing /\ args.use_ensemble /\ ~IsNone(args.t1)

\* the number of channels the segmentation is asked for
Channels == IF IsNone(args.t1) THEN 1 ELSE 2

(* C3: the batch of brain_age is 80 x X x Y x 3 and entry i holds slices   *)
(* 44+i, 45+i, 46+i; the batch of the segmentation is 200 x 200 x 200 x C, *)
(* C = 1 without t1 and 2 with it, flair in channel 0 and t1 in channel 1, *)
(* and every model of the call is built for C channels.                    *)
C3_BatchShape ==
    /\ (fn = "brain_age" /\ loc.batchX # <<>>) =>
          /\ loc.batch_shape = <<80, loc.t1_preprocessed.shape[1],
                                 loc.t1_preprocessed.shape[2], 3>>
          /\ Len(loc.batchX) = 80
          /\ \A i \in 0..79 : loc.batchX[i + 1] = <<44 + i, 45 + i, 46 + i>>
    /\ (fn = "sysu" /\ loc.batchX # <<>>) =>
          /\ loc.batch_shape = <<200, 200, 200, Channels>>
          /\ Len(loc.batchX) = 200
          /\ \A i \in 0..199 :
                /\ Len(loc.batchX[i + 1]) = Channels
                /\ loc.batchX[i + 1][1] =
                       [image |-> "flair", idx |-> i, shape |-> <<200, 200>>]
                /\ Channels = 2 =>
                       loc.batchX[i + 1][2] =
                           [image |-> "t1", idx |-> i, shape |-> <<200, 200>>]
          /\ \A m \in DOMAIN loc.unet_models :
                loc.unet_models[m].input_image_size = <<200, 200, Channels>>

C3_Witness ==
    /\ pc = "done" /\ fn = "sysu" /\ ~IsNone(args.t1)
    /\ args.flair.shape # <<200, 200, 200>>
    /\ Len(loc.unet_models) = 3

\* the k-th smallest value of a sequence, by counting
KthSmallest(data, k) ==
    CHOOSE v \in Range(data) :
        /\ Cardinality({j \in DOMAIN data : data[j] < v}) < k
        /\ k <= Cardinality({j \in DOMAIN data : data[j] <= v})

RECURSIVE SumOfModels(_, _)
SumOfModels(n, j) ==
    IF n = 0 THEN 0
    ELSE Unet(loc.unet_models[n], loc.flair_preprocessed_warped, loc.batchX[j])
             + SumOfModels(n - 1, j)

(* C4: predicted_age is the mean of the two middle values of the 80        *)
(* per-slice predictions; the prediction of the segmentation is the sum of *)
(* the predictions of the models of the call over their number, and the    *)
(* prediction of the one model when there is one.                          *)
C4_Aggregation ==
    /\ (fn = "brain_age" /\ pc = "done") =>
          /\ Len(loc.brain_age_per_slice) = 80
          /\ loc.predicted_age =
                [num |-> KthSmallest(loc.brain_age_per_slice, 40)
                             + KthSmallest(loc.brain_age_per_slice, 41),
                 den |-> 2]
    /\ (fn = "sysu" /\ pc \in {"restack", "done"}) =>
          LET n == IF args.use_ensemble THEN 3 ELSE 1 IN
          /\ Len(loc.unet_models) = n
          /\ \A j \in DOMAIN loc.batchX :
                loc.prediction[j] = [num |-> SumOfModels(n, j), den |-> n]
          /\ n = 1 =>
                \A j \in DOMAIN loc.batchX :
                    loc.prediction[j] =
                        [num |-> Unet(loc.unet_models[1],
                                      loc.flair_preprocessed_warped,
                                      loc.batchX[j]),
                         den |-> 1]

C4_Witness ==
    /\ fn = "brain_age" /\ pc = "done"
    /\ KthSmallest(loc.brain_age_per_slice, 40)
           # KthSmallest(loc.brain_age_per_slice, 41)

(* C5: the probability image returned has the size, origin, spacing and    *)
(* direction of the flair passed in, the transform inverted at the end is  *)
(* the one applied to the inputs, and the content is back where the flair  *)
(* had it.                                                                 *)
C5_RoundTrip ==
    (fn = "sysu" /\ pc = "done") =>
        /\ loc.probability_image.dimension = 3
        /\ Header(loc.probability_image) = Header(args.flair)
        /\ loc.flair_preprocessed_warped.shift = loc.xfrm.translation
        /\ loc.brain_mask_warped.shift = loc.xfrm.translation
        /\ ~IsNone(args.t1) =>
              loc.t1_preprocessed_warped.shift = loc.xfrm.translation
        /\ loc.inverse.center = loc.xfrm.center
        /\ VAdd(loc.inverse.translation, loc.xfrm.translation) = Zero3
        /\ loc.probability_image.shift = Zero3

C5_Witness ==
    /\ fn = "sysu" /\ pc = "done"
    /\ loc.xfrm.translation # Zero3
    /\ Header(args.flair) # Header(reference_image)
    /\ IsNone(args.brain_mask)

\* the name of the weights file a call looks for
WeightsFileName(e) ==
    IF fn = "brain_age" THEN <<"DeepBrainNetModel", ".h5">>
    ELSE IF e.op = "exists" THEN BaseName(NormPath(e.path))
    ELSE e.name \o <<".h5">>

(* C6: with an output_directory, every weights file looked up, downloaded  *)
(* to or loaded is a direct child of it; without one, no target path is    *)
(* passed to get_pretrained_network.                                       *)
C6_WeightsInOutputDirectory ==
    \A k \in At(WeightOps) :
        IF args.output_directory # NoneDir
        THEN NormPath(log[k].path) =
                 Append(NormPath(args.output_directory), WeightsFileName(log[k]))
        ELSE log[k].op = "get_pretrained_network" => log[k].path = NoneDir

(* C7: no weights file is downloaded twice; a file is downloaded only if   *)
(* it is not at its cache path when the call looks; and a file found there *)
(* is loaded from that path without a call of get_pretrained_network.      *)
C7_CacheReuse ==
    /\ \A d \in downloads : d.n <= 1
    /\ \A k \in At({"get_pretrained_network"}) :
          log[k].path # NoneDir =>
              /\ ~Exists(disk0, log[k].path)
              /\ \A j \in At({"get_pretrained_network"}) :
                    j < k => NormPath(log[j].path) # NormPath(log[k].path)
              /\ k > 1 /\ log[k - 1] = Event("exists", <<>>, log[k].path)
    /\ \A k \in At({"exists"}) :
          (\E f \in disk0 : f.path = NormPath(log[k].path)) =>
                /\ k < Len(log)
                /\ log[k + 1].op # "get_pretrained_network"
                /\ \E j \in At(LoadOps) :
                      /\ j > k /\ log[j].path = log[k].path
                      /\ \A h \in At(LoadOps) : h > k => h >= j

C7_Witness ==
    /\ ncalls = 2 /\ pc = "done" /\ fn = "sysu" /\ args.use_ensemble
    /\ At({"get_pretrained_network"}) = {}
    /\ \A k \in At({"exists"}) : \E f \in disk0 : f.path = NormPath(log[k].path)

\* the family of the weight sets
Family == IF IsNone(args.t1) THEN "sysuMediaWmhFlairOnlyModel"
          ELSE "sysuMediaWmhFlairT1Model"

\* the log entries of one operation, in order
Calls(op) == SelectSeq(log, LAMBDA e : e.op = op)

(* C8: 3 models with use_ensemble and 1 without; model i carries weight    *)
(* set i of the FLAIR-only family without t1 and of the FLAIR+T1 family    *)
(* with it; preprocess_brain_image is called once per given image with     *)
(* do_preprocessing and never without.                                     *)
C8_Toggles ==
    (fn = "sysu" /\ pc \in {"extract", "predict", "average", "restack", "done"}) =>
        LET n == IF args.use_ensemble THEN 3 ELSE 1 IN
        /\ Len(loc.unet_models) = n
        /\ Len(Calls("create_sysu_media_unet_model_2d")) = n
        /\ Len(Calls("load_weights")) = n
        /\ \A i \in 0..(n - 1) :
              /\ loc.unet_models[i + 1].weights = <<Family, Str(i)>>
              /\ Calls("load_weights")[i + 1].name = <<Family, Str(i)>>
        /\ [k \in DOMAIN Calls("preprocess_brain_image") |->
               Calls("preprocess_brain_image")[k].name]
              = IF ~args.do_preprocessing THEN <<>>
                ELSE IF IsNone(args.t1) THEN << <<"flair">> >>
                ELSE << <<"flair">>, <<"t1">> >>

C8_Witness ==
    /\ fn = "sysu" /\ pc = "done" /\ args.use_ensemble /\ ~IsNone(args.t1)
    /\ args.do_preprocessing /\ ncalls = 2 /\ disk0 # {}

(* C9 as stated: every slice index brain_age reads is a valid index of the *)
(* third axis of the normalized T1.                                        *)
C9_SliceReadsValid ==
    fn = "brain_age" =>
        \A idx \in loc.slices_read : ValidSlice(loc.t1_preprocessed, idx)

(* C9 amended: the slice indices read are 44 to 125; they are all valid    *)
(* exactly when the third axis of the normalized T1 has at least 126       *)
(* slices, and otherwise the read that is out of range fails in the        *)
(* library.                                                                *)
C9_SliceReadsValidIffDeep ==
    (fn = "brain_age" /\ loc.slices_read # {}) =>
        LET deep == loc.t1_preprocessed.shape[3] >= 126
            valid == \A idx \in loc.slices_read :
                         ValidSlice(loc.t1_preprocessed, idx)
        IN /\ valid <=> deep
           /\ valid => loc.slices_read = 44..125 /\ pc # "failed"
           /\ ~valid => pc = "failed" /\ err.line \in {120, 121, 122}

C9_Witness ==
    /\ fn = "brain_age" /\ pc = "done" /\ ~args.do_preprocessing
    /\ loc.t1_preprocessed.shape[3] = 126
    /\ 125 \in loc.slices_read

(* C10: a call whose t1 (brain_age) or flair (segmentation) is not 3-D     *)
(* raises the ValueError before any library call, and leaves the locals    *)
(* and the files on disk as they were.                                     *)
C10_RejectedCallChangesNothing ==
    (fn # "none" /\ CheckedImage.dimension # 3) =>
        /\ pc \in {"check", "raised"}
        /\ pc = "raised" => err = [type |-> "ValueError",
                                   line |-> IF fn = "brain_age" THEN 67 ELSE 84]
        /\ log = <<>>
        /\ loc = InitLoc
        /\ disk = disk0

C10_Witness ==
    /\ pc = "raised" /\ fn = "sysu" /\ args.do_preprocessing
    /\ args.output_directory # NoneDir /\ disk # {}

=============================================================================
